---- MODULE Spec2Model ----
(***************************************************************************)
(* Scene-graph resolution (project/assets/asset_godot_scene.ts) and the    *)
(* translation rules parseConditionalExpression,                           *)
(* parseElementAccessExpression and parseThisKeyword of ts2gd.             *)
(*                                                                         *)
(* Encoding of JavaScript values:                                          *)
(*   - an optional value (T | undefined) is a sequence: << >> is           *)
(*     undefined, <<v>> is the value v;                                    *)
(*   - a node's `type` is a string, "" standing for a missing type (both   *)
(*     are falsy, and the code only ever tests `!this._type`);             *)
(*   - a path is a record [root, stem, ext]; "res://" and "/proj/" are the *)
(*     two roots (the engine-virtual one and the filesystem one);          *)
(*   - an object reference (node.scene, scene.rootNode) is a key: the      *)
(*     scene's fsPath, the node's index in scene.nodes.                    *)
(***************************************************************************)
EXTENDS Integers, Sequences, FiniteSets, TLC

VARIABLES
  files,    \* the parsed scene files (parseGodotConfigFile's output), by scene
  project,  \* TsGdProjectClass: its scene, model and source-file assets
  errors,   \* the diagnostics sink addError appends to
  ret,      \* the last resolver query or translation and what it returned
  memo,     \* the first query of a run with its result, and whether others followed
  pc        \* "parsed" before the scenes are constructed, "loaded" after

vars == <<files, project, errors, ret, memo, pc>>

\* The sink is append-only and unbounded; no query is made once it holds this
\* many diagnostics.
MaxErrors == 1

--------------------------------------------------------------------------
(* JavaScript truthiness, find, paths *)

\* !x for an optional number: undefined and 0 are falsy.
TruthyNum(o) == o # << >> /\ o[1] # 0

\* !x for an optional string: undefined and "" are falsy.
TruthyStr(o) == o # << >> /\ o[1] # ""

\* Array.prototype.find: the first of `hits`, the elements satisfying the
\* predicate in array order, or undefined.
Find(hits) == IF hits = << >> THEN << >> ELSE <<hits[1]>>

ResRoot == "res://"
FsRoot == "/proj/"

ResPath(stem, ext) == [root |-> ResRoot, stem |-> stem, ext |-> ext]
FsPath(stem, ext) == [root |-> FsRoot, stem |-> stem, ext |-> ext]

\* TsGdProjectClass.ResPathToFsPath / FsPathToResPath: swap the root.
ResPathToFsPath(p) == [p EXCEPT !.root = FsRoot]
FsPathToResPath(p) == [p EXCEPT !.root = ResRoot]

\* path.basename(fsPath, ".tscn")
Basename(p, ext) == IF p.ext = ext THEN p.stem ELSE p.stem \o p.ext

\* fsPath.slice(0, -".ts".length) of a path ending in ".ts"
SliceTs(p) == p.root \o p.stem

PathText(p) == p.root \o p.stem \o p.ext

--------------------------------------------------------------------------
(* The project on disk: four scene files, each instancing the next         *)
(* (A -> B -> C -> D -> A), one model asset and the source files.          *)

Stems == <<"A", "B", "C", "D">>
StemSet == {Stems[i] : i \in DOMAIN Stems}

NextStem(s) ==
  CASE s = "A" -> "B" [] s = "B" -> "C" [] s = "C" -> "D" [] OTHER -> "A"

\* One [ext_resource path=... type=... id=...] section.
Ext(id, stem, ext, type) == [path |-> ResPath(stem, ext), type |-> type, id |-> id]

\* The ext_resource sections of scene s.  Ids 0 and 1 name the next scene, 2 the
\* scene's own script, 3 a source file exporting no class, 4 a script that is no
\* source file of the project, 5 a scene deleted from the project, 6 a model.
\* No section has id 7, and scene C has none with id 0.
ExtResources(s) ==
  (IF s = "C" THEN << >> ELSE <<Ext(0, NextStem(s), ".tscn", "PackedScene")>>)
  \o <<Ext(1, NextStem(s), ".tscn", "PackedScene"),
       Ext(2, s \o "Script", ".gd", "Script"),
       Ext(3, "NoClass", ".gd", "Script"),
       Ext(4, "hand", ".gd", "Script"),
       Ext(5, "gone", ".tscn", "PackedScene"),
       Ext(6, "m", ".glb", "PackedScene")>>

\* One [node ...] section with its script property: parent, instance and script
\* are optional.
Sec(name, type, parent, instance, script) ==
  [section |-> [name |-> name, type |-> type, parent |-> parent,
                groups |-> << >>, instance |-> instance],
   script |-> script]

\* The nodes the "Full" version of scene A declares below its root.
Extras ==
  <<Sec("Typed", "Sprite", <<".">>, << >>, << >>),
    Sec("Inst1", "", <<".">>, <<1>>, << >>),
    Sec("Gone", "", <<".">>, <<5>>, << >>),
    Sec("Inst0", "", <<".">>, <<0>>, << >>),
    Sec("Glb", "", <<".">>, <<6>>, << >>),
    Sec("Dangling", "", <<".">>, <<7>>, << >>),
    Sec("Patch", "", <<".">>, << >>, << >>),
    Sec("TypedGone", "Node2D", <<".">>, <<5>>, << >>),
    Sec("TypedDangling", "Node2D", <<".">>, <<7>>, << >>),
    Sec("Arm", "", <<"Inst1">>, << >>, << >>),
    Sec("Leaf", "Sprite", <<"Typed">>, << >>, <<2>>),
    Sec("Deep", "", <<"Typed/Leaf">>, <<1>>, <<2>>)>>

\* The node lists a scene file may hold, by name.
Shape(k) ==
  CASE k = "Full" -> <<Sec("Root", "", << >>, <<1>>, << >>)>> \o Extras
    [] k = "Scripted" -> <<Sec("Root", "Node2D", << >>, << >>, <<2>>)>>
    [] k = "Plain" -> <<Sec("Root", "Node2D", << >>, << >>, << >>)>>
    [] k = "Inherit1" -> <<Sec("Root", "", << >>, <<1>>, << >>)>>
    [] k = "Inherit0" -> <<Sec("Root", "", << >>, <<0>>, << >>)>>
    [] k = "NoClassScript" -> <<Sec("Root", "Node2D", << >>, << >>, <<3>>)>>
    [] k = "HandScript" -> <<Sec("Root", "Node2D", << >>, << >>, <<4>>)>>
    [] k = "DanglingScript" -> <<Sec("Root", "Node2D", << >>, << >>, <<7>>)>>
    [] k = "InstScripted" -> <<Sec("Root", "", << >>, <<1>>, <<2>>)>>
    [] k = "Rootless" -> <<Sec("Orphan", "Node2D", <<"Root">>, << >>, << >>)>>
    [] k = "TwoRoots" -> <<Sec("Kid", "Sprite", <<".">>, << >>, << >>),
                           Sec("Root", "", << >>, <<1>>, << >>),
                           Sec("Second", "Node2D", << >>, << >>, <<2>>)>>
    [] OTHER -> << >>

SceneFile(s, k) == [ext_resource |-> ExtResources(s), node |-> Shape(k)]

\* The model asset and the source files of the project.
Glbs == <<[kind |-> "glb", fsPath |-> FsPath("m", ".glb"), tsType |-> "Spatial"]>>

Source(stem, cls) ==
  [kind |-> "source", fsPath |-> FsPath(stem, ".ts"),
   resPath |-> ResPath(stem, ".gd"), className |-> cls]

Sources ==
  [i \in DOMAIN Stems |-> Source(Stems[i] \o "Script", <<Stems[i] \o "Class">>)]
  \o <<Source("NoClass", << >>)>>

--------------------------------------------------------------------------
(* Construction *)

\* GodotNode's constructor; `scene` is the owning scene's fsPath.
NewGodotNode(props, scene) ==
  [name |-> props.section.name,
   type |-> props.section.type,
   isRoot |-> IF TruthyStr(props.section.parent) THEN FALSE ELSE TRUE,
   groups |-> props.section.groups,
   section |-> props.section,
   parent |-> props.section.parent,
   scene |-> scene,
   scriptExtResourceId |-> props.script]

\* nodes.find((node) => !node.parent): the index of the first such node.
FindRoot(nodes) ==
  IF \A i \in DOMAIN nodes : TruthyStr(nodes[i].parent) THEN << >>
  ELSE <<CHOOSE i \in DOMAIN nodes :
           /\ ~TruthyStr(nodes[i].parent)
           /\ \A j \in DOMAIN nodes : ~TruthyStr(nodes[j].parent) => i <= j>>

\* AssetGodotScene's constructor.
NewScene(fsPath, sceneFile) ==
  [kind |-> "scene",
   fsPath |-> fsPath,
   resPath |-> FsPathToResPath(fsPath),
   resources |->
     [i \in DOMAIN sceneFile.ext_resource |->
        [resPath |-> sceneFile.ext_resource[i].path,
         fsPath |-> ResPathToFsPath(sceneFile.ext_resource[i].path),
         id |-> sceneFile.ext_resource[i].id]],
   nodes |-> [i \in DOMAIN sceneFile.node |-> NewGodotNode(sceneFile.node[i], fsPath)],
   name |-> Basename(fsPath, ".tscn"),
   rootNode |->
     FindRoot([i \in DOMAIN sceneFile.node |-> NewGodotNode(sceneFile.node[i], fsPath)])]

\* The project's accessors: its assets of one kind, in asset order.
godotScenes == SelectSeq(project.assets, LAMBDA a : a.kind = "scene")
godotGlbs == SelectSeq(project.assets, LAMBDA a : a.kind = "glb")
sourceFiles == SelectSeq(project.assets, LAMBDA a : a.kind = "source")

\* The scene object behind a reference (node.scene, instance()).
SceneAt(fsPath) == Find(SelectSeq(godotScenes, LAMBDA sc : sc.fsPath = fsPath))[1]

\* scene.rootNode: the node object, or undefined.
RootOf(sc) == IF sc.rootNode = << >> THEN << >> ELSE <<sc.nodes[sc.rootNode[1]]>>

--------------------------------------------------------------------------
(* GodotNode's resolver methods *)

SceneOf(node) == SceneAt(node.scene)

scenePath(node) ==
  IF ~TruthyStr(node.parent) THEN "."
  ELSE IF node.parent[1] = "." THEN node.name
  ELSE node.parent[1] \o "/" \o node.name

instanceId(node) ==
  IF ~TruthyNum(node.section.instance)
       /\ ~(node.section.instance # << >> /\ node.section.instance[1] = 0)
    THEN << >>
    ELSE node.section.instance

isInstance(node) == TruthyNum(instanceId(node))

\* What instance() does: it returns a scene or a model ("scene", "glb", with the
\* asset's fsPath as the reference), returns undefined, or throws.
Undefined == [kind |-> "undefined", ref |-> << >>]
Thrown == [kind |-> "throw", ref |-> << >>]

\* instance(), from the two project lookups on.
instanceMatch(matchingScene, matchingGlb) ==
  IF matchingScene # << >> THEN [kind |-> "scene", ref |-> <<matchingScene[1].fsPath>>]
  ELSE IF matchingGlb # << >> THEN [kind |-> "glb", ref |-> <<matchingGlb[1].fsPath>>]
  ELSE Undefined

\* instance(), from the resource-table entry on.
instanceLookup(res) ==
  IF res = << >> THEN Thrown
  ELSE instanceMatch(Find(SelectSeq(godotScenes, LAMBDA sc : sc.fsPath = res[1].fsPath)),
                     Find(SelectSeq(godotGlbs, LAMBDA glb : glb.fsPath = res[1].fsPath)))

\* instance(), from the instance id on.
instanceById(node, id) ==
  IF id = << >> THEN Undefined
  ELSE instanceLookup(Find(SelectSeq(SceneOf(node).resources, LAMBDA r : r.id = id[1])))

instance(node) == instanceById(node, instanceId(node))

\* A variant that takes "override" to mean "instance() finds nothing".
isInstanceOverride_byInstance(node) == node.type = "" /\ instance(node).kind = "undefined"

isInstanceOverride(node) == node.type = "" /\ ~isInstance(node)

\* A variant that forgets to leave the overrides out.
children_unfiltered(node) ==
  SelectSeq(SceneOf(node).nodes, LAMBDA n : n.parent = <<scenePath(node)>>)

children(node) ==
  SelectSeq(SceneOf(node).nodes,
            LAMBDA n : n.parent = <<scenePath(node)>> /\ ~isInstanceOverride(n))

\* What getScript() does: it returns a source-file asset ("source"), returns
\* undefined, or throws (a script id missing from the resource table, or the
\* rootNode of an instanced scene that has none).
NoScript == [kind |-> "undefined", asset |-> << >>]
ScriptThrown == [kind |-> "throw", asset |-> << >>]

\* getScript(), from the lookup in project.assets on.
scriptFound(res) == IF res = << >> THEN NoScript ELSE [kind |-> "source", asset |-> res]

\* getScript(), from the lookup in the resource table on.
scriptAsset(externalResource) ==
  IF externalResource = << >> THEN ScriptThrown
  ELSE scriptFound(Find(SelectSeq(project.assets,
                        LAMBDA sf : sf.kind = "source"
                                    /\ sf.resPath = externalResource[1].resPath)))

\* getScript(), once scriptId and sceneContainingScript are settled.
scriptIn(sceneContainingScript, scriptId) ==
  IF ~TruthyNum(scriptId) THEN NoScript
  ELSE scriptAsset(Find(SelectSeq(sceneContainingScript.resources, LAMBDA obj : obj.id = scriptId[1])))

\* getScript() of a node without a script id of its own, `inst` being what
\* this.instance() gave: the script id of the instanced scene's rootNode, looked
\* up in that scene.
scriptVia(node, inst) ==
  IF inst.kind = "throw" THEN ScriptThrown
  ELSE IF inst.kind # "scene" THEN NoScript
  ELSE IF SceneAt(inst.ref[1]).rootNode = << >> THEN ScriptThrown
  ELSE scriptIn(SceneAt(inst.ref[1]), RootOf(SceneAt(inst.ref[1]))[1].scriptExtResourceId)

getScript(node) ==
  IF TruthyNum(node.scriptExtResourceId)
    THEN scriptIn(SceneOf(node), node.scriptExtResourceId)
    ELSE scriptVia(node, instance(node))

\* addError's argument, without the call stack.
Diag(error, what, location) == [error |-> error, description |-> what, location |-> location]

\* The outcome of a tsType() call: the string returned (or that the call threw)
\* and the diagnostics it appended, in order.
Returned(val, errs) == [throws |-> FALSE, val |-> val, errs |-> errs]
Threw(errs) == [throws |-> TRUE, val |-> "", errs |-> errs]

RECURSIVE NodeTsType(_, _)
RECURSIVE SceneTsType(_, _)

\* GodotNode.tsType(), given what instance()?.tsType() came to (undefined read
\* as ""): that type, or a diagnostic and "any".
typeOr(node, instancedSceneType) ==
  IF instancedSceneType.throws \/ instancedSceneType.val # "" THEN instancedSceneType
  ELSE Returned("any",
                instancedSceneType.errs
                  \o <<Diag("InvalidFile",
                            PathText(SceneOf(node).fsPath) \o " refers to "
                              \o scenePath(node) \o ", but it doesn't exist",
                            node.name)>>)

\* GodotNode.tsType() of a node that has no type and is no override, `inst` being
\* what this.instance() gave.
typeVia(node, inst, active) ==
  IF inst.kind = "throw" THEN Threw(<< >>)
  ELSE typeOr(node,
              IF inst.kind = "scene" THEN SceneTsType(SceneAt(inst.ref[1]), active)
              ELSE IF inst.kind = "glb"
                THEN Returned(Find(SelectSeq(godotGlbs, LAMBDA g : g.fsPath = inst.ref[1]))[1].tsType, << >>)
              ELSE Returned("", << >>))

\* GodotNode.tsType().  `active` holds the scenes whose tsType() is on the call
\* stack: the methods read nothing that changes, so a scene entered again is
\* entered forever, and the call ends in a stack overflow (a RangeError).
NodeTsType(node, active) ==
  IF node.type # "" THEN Returned(node.type, << >>)
  ELSE IF isInstanceOverride(node)
    THEN Returned("any", <<Diag("InvalidFile", "type of an instance override", node.name)>>)
  ELSE typeVia(node, instance(node), active)

\* AssetGodotScene.tsType(), the rootScript branch.
typeOfSource(rootScript, rootSourceFile) ==
  IF rootSourceFile = << >>
    THEN Returned("any", <<Diag("Ts2GdError", "Failed to find root source file",
                                PathText(rootScript.fsPath))>>)
  ELSE IF ~TruthyStr(rootSourceFile[1].className)
    THEN Returned("any", <<Diag("Ts2GdError", "Failed to find classname",
                                PathText(rootScript.fsPath))>>)
  ELSE Returned("import('" \o SliceTs(rootSourceFile[1].fsPath) \o "')."
                  \o rootSourceFile[1].className[1], << >>)

\* A variant that reports the unresolved script and gives up on the type.
sceneTypeFrom_reporting(scene, rootScript, active) ==
  IF rootScript.kind = "throw" THEN Threw(<< >>)
  ELSE IF rootScript.kind = "source"
    THEN typeOfSource(rootScript.asset[1],
                      Find(SelectSeq(sourceFiles, LAMBDA sf : sf.resPath = rootScript.asset[1].resPath)))
  ELSE Returned("any", <<Diag("Ts2GdError", "Failed to find root script", PathText(scene.fsPath))>>)

\* AssetGodotScene.tsType(), `rootScript` being what this.rootNode.getScript() gave.
sceneTypeFrom(scene, rootScript, active) ==
  IF rootScript.kind = "throw" THEN Threw(<< >>)
  ELSE IF rootScript.kind = "source"
    THEN typeOfSource(rootScript.asset[1],
                      Find(SelectSeq(sourceFiles, LAMBDA sf : sf.resPath = rootScript.asset[1].resPath)))
  ELSE NodeTsType(RootOf(scene)[1], active \cup {scene.fsPath})

\* AssetGodotScene.tsType(); without a rootNode, this.rootNode.getScript() is a
\* TypeError.
SceneTsType(scene, active) ==
  IF scene.fsPath \in active \/ scene.rootNode = << >> THEN Threw(<< >>)
  ELSE sceneTypeFrom(scene, getScript(RootOf(scene)[1]), active)

--------------------------------------------------------------------------
(* The translation rules *)

RECURSIVE parseNode(_, _)

\* A variant with the condition and the true branch swapped.
CondTemplate_swapped(strs) == strs[1] \o " if " \o strs[2] \o " else " \o strs[3]

\* The rules' templates over the child texts, in the order the rule lists them.
CondTemplate(strs) == strs[2] \o " if " \o strs[1] \o " else " \o strs[3]
ElemTemplate(strs) == strs[1] \o "[" \o strs[2] \o "]"
ThisTemplate(strs) == "self"

\* The call of the template a rule hands to combine, the template given by name.
ApplyTemplate(parsedStrings, strs) ==
  CASE parsedStrings = "CondTemplate" -> CondTemplate(strs)
    [] parsedStrings = "ElemTemplate" -> ElemTemplate(strs)
    [] OTHER -> ThisTemplate(strs)

\* combine: translate the listed child nodes in order under props, then apply
\* the rule's template to the child texts.
combine(parent, nodes, props, parsedStrings) ==
  [content |-> ApplyTemplate(parsedStrings,
                             [i \in DOMAIN nodes |-> parseNode(nodes[i], props).content])]

parseConditionalExpression(node, props) ==
  combine(node, <<node.condition, node.whenTrue, node.whenFalse>>, props, "CondTemplate")

parseElementAccessExpression(node, props) ==
  combine(node, <<node.expression, node.argumentExpression>>, props, "ElemTemplate")

parseThisKeyword(node, props) == combine(node, << >>, props, "ThisTemplate")

\* The dispatcher: one rule per node kind; an identifier stands for any child
\* whose translation is its own text.
parseNode(node, props) ==
  CASE node.kind = "ConditionalExpression" -> parseConditionalExpression(node, props)
    [] node.kind = "ElementAccessExpression" -> parseElementAccessExpression(node, props)
    [] node.kind = "ThisKeyword" -> parseThisKeyword(node, props)
    [] OTHER -> [content |-> node.text]

Ident(text) == [kind |-> "Identifier", text |-> text]
This == [kind |-> "ThisKeyword"]
Elem(b, i) == [kind |-> "ElementAccessExpression", expression |-> b, argumentExpression |-> i]
Cond(c, t, f) == [kind |-> "ConditionalExpression", condition |-> c, whenTrue |-> t, whenFalse |-> f]

\* The child nodes and the ParseStates the rules are run on.
Leaves == {Ident(x) : x \in {"c", "t", "f", "b", "i"}} \cup {This, Elem(Ident("b"), This)}
Trees ==
  Leaves \cup {Elem(b, i) : b \in Leaves, i \in Leaves}
         \cup {Cond(c, t, f) : c \in Leaves, t \in Leaves, f \in Leaves}
ParseStates == {[indent |-> "", isConstant |-> FALSE], [indent |-> "  ", isConstant |-> TRUE]}

--------------------------------------------------------------------------
(* The state machine *)

\* A returned value with its JavaScript type: a string, a boolean, an array of
\* nodes.  (instance() and getScript() return the records defined with them.)
Str(s) == [str |-> s]
Bool(b) == [bool |-> b]
List(ns) == [nodes |-> ns]

NoRet == [op |-> "none", scene |-> 0, node |-> 0, val |-> Str(""), throws |-> FALSE,
          appended |-> << >>]

\* The versions of the project: which node list each scene file holds.
Pick(a, b, c, d) == [s \in StemSet |-> CASE s = "A" -> a [] s = "B" -> b [] s = "C" -> c [] OTHER -> d]

\* Instancing chains of every kind through small scenes ...
ChainPicks ==
  {Pick(a, b, c, d) :
     a \in {"Inherit1", "Inherit0", "TwoRoots"},
     b \in {"Scripted", "Plain", "Inherit1", "Inherit0", "NoClassScript",
            "HandScript", "DanglingScript", "InstScripted", "Rootless"},
     c \in {"Scripted", "Plain", "Inherit1", "Inherit0", "Rootless"},
     d \in {"Scripted", "Inherit1"}}

\* ... and a scene A with nodes of every kind below its root.
FullPicks ==
  {Pick("Full", b, "Scripted", "Scripted") : b \in {"Scripted", "Inherit1", "Rootless"}}

Picks == ChainPicks \cup FullPicks

Start(pick, remember) ==
  /\ files = [s \in StemSet |-> SceneFile(s, pick[s])]
  /\ project = [assets |-> Glbs \o Sources]
  /\ errors = << >>
  /\ ret = NoRet
  /\ memo = [on |-> remember, first |-> << >>, again |-> FALSE]
  /\ pc = "parsed"

\* Any of the project's versions, parsed and not yet constructed.
Init == \E pick \in Picks : Start(pick, FALSE)

\* Project load: every scene file becomes an AssetGodotScene.
Load ==
  /\ pc = "parsed"
  /\ project' =
       [assets |-> [i \in DOMAIN Stems |->
                      NewScene(FsPath(Stems[i], ".tscn"), files[Stems[i]])]
                   \o project.assets]
  /\ pc' = "loaded"
  /\ UNCHANGED <<files, errors, ret, memo>>

NodeAt(s, i) == godotScenes[s].nodes[i]

\* A query returns (or throws): the diagnostics it produced join the sink.
Answer(op, s, i, val, throws, errs) ==
  /\ pc = "loaded"
  /\ Len(errors) < MaxErrors
  /\ errors' = errors \o errs
  /\ ret' = [op |-> op, scene |-> s, node |-> i, val |-> val, throws |-> throws,
             appended |-> errs]
  /\ memo' = IF ~memo.on THEN memo
             ELSE IF memo.first = << >> THEN [memo EXCEPT !.first = <<ret'>>]
             ELSE [memo EXCEPT !.again = TRUE]
  /\ UNCHANGED <<files, pc>>

\* The same for a tsType() call and its outcome.
AnswerType(op, s, i, outcome) ==
  Answer(op, s, i, Str(outcome.val), outcome.throws, outcome.errs)

QueryScenePath(s, i) ==
  /\ Answer("scenePath", s, i, Str(scenePath(NodeAt(s, i))), FALSE, << >>)
  /\ UNCHANGED project

QueryChildren(s, i) ==
  /\ Answer("children", s, i, List(children(NodeAt(s, i))), FALSE, << >>)
  /\ UNCHANGED project

QueryIsInstance(s, i) ==
  /\ Answer("isInstance", s, i, Bool(isInstance(NodeAt(s, i))), FALSE, << >>)
  /\ UNCHANGED project

QueryInstance(s, i) ==
  /\ Answer("instance", s, i, instance(NodeAt(s, i)), instance(NodeAt(s, i)).kind = "throw", << >>)
  /\ UNCHANGED project

QueryIsInstanceOverride(s, i) ==
  /\ Answer("isInstanceOverride", s, i, Bool(isInstanceOverride(NodeAt(s, i))), FALSE, << >>)
  /\ UNCHANGED project

QueryTsType(s, i) ==
  /\ AnswerType("tsType", s, i, NodeTsType(NodeAt(s, i), {}))
  /\ UNCHANGED project

\* A variant that keeps the script id it found on the node.
QueryGetScript_caching(s, i) ==
  /\ Answer("getScript", s, i, getScript(NodeAt(s, i)), getScript(NodeAt(s, i)).kind = "throw", << >>)
  /\ project' =
       [project EXCEPT !.assets[s].nodes[i].scriptExtResourceId =
          IF ~TruthyNum(@) /\ instance(NodeAt(s, i)).kind = "scene"
               /\ SceneAt(instance(NodeAt(s, i)).ref[1]).rootNode # << >>
            THEN RootOf(SceneAt(instance(NodeAt(s, i)).ref[1]))[1].scriptExtResourceId
            ELSE @]

QueryGetScript(s, i) ==
  /\ Answer("getScript", s, i, getScript(NodeAt(s, i)), getScript(NodeAt(s, i)).kind = "throw", << >>)
  /\ UNCHANGED project

QuerySceneTsType(s) ==
  /\ AnswerType("sceneTsType", s, 0, SceneTsType(godotScenes[s], {}))
  /\ UNCHANGED project

\* The nodes of the loaded project: scene s, node i.
Nodes == UNION {{<<s, i>> : i \in DOMAIN godotScenes[s].nodes} : s \in DOMAIN godotScenes}

Next ==
  \/ Load
  \/ \E s \in DOMAIN godotScenes : QuerySceneTsType(s)
  \/ \E n \in Nodes : QueryScenePath(n[1], n[2])
  \/ \E n \in Nodes : QueryChildren(n[1], n[2])
  \/ \E n \in Nodes : QueryIsInstance(n[1], n[2])
  \/ \E n \in Nodes : QueryInstance(n[1], n[2])
  \/ \E n \in Nodes : QueryIsInstanceOverride(n[1], n[2])
  \/ \E n \in Nodes : QueryTsType(n[1], n[2])
  \/ \E n \in Nodes : QueryGetScript(n[1], n[2])

Spec == Init /\ [][Next]_vars

\* A few versions of the project, the first query of each run remembered.
RepeatPicks ==
  {Pick("Inherit1", b, c, "Scripted") : b \in {"InstScripted", "Inherit1", "Inherit0"},
                                        c \in {"Scripted", "Rootless"}}

InitRepeat == \E pick \in RepeatPicks : Start(pick, TRUE)

SpecRepeat == InitRepeat /\ [][Next]_vars

\* Translation of one tree under one ParseState.
Translate(node, props) ==
  /\ ret' = [op |-> "translate", scene |-> 0, node |-> node, val |-> Str(parseNode(node, props).content),
             throws |-> FALSE, appended |-> << >>, props |-> props]
  /\ UNCHANGED <<files, project, errors, memo, pc>>

InitTranslate ==
  /\ files = << >>
  /\ project = [assets |-> << >>]
  /\ errors = << >>
  /\ ret = NoRet
  /\ memo = [on |-> FALSE, first |-> << >>, again |-> FALSE]
  /\ pc = "loaded"

NextTranslate == \E node \in Trees, props \in ParseStates : Translate(node, props)

SpecTranslate == InitTranslate /\ [][NextTranslate]_vars

--------------------------------------------------------------------------
(* Properties *)

\* The last step was the query `op`.
Asked(op) == pc = "loaded" /\ ret.op = op

\* The node the last query was made on, its scene, and that scene's file.
RetNode == NodeAt(ret.scene, ret.node)
RetScene == godotScenes[ret.scene]

\* The resource-table entries of the node's scene that carry the node's instance id.
Entries(node) ==
  SelectSeq(SceneOf(node).resources,
            LAMBDA r : node.section.instance # << >> /\ r.id = node.section.instance[1])

\* The node carries an instance id that its scene's resource table lacks.
Dangling(node) == node.section.instance # << >> /\ Entries(node) = << >>

\* The node's instance id is in the table, and its path is no scene or model of
\* the project.
Unmatched(node) ==
  /\ Entries(node) # << >>
  /\ \A a \in DOMAIN project.assets :
       project.assets[a].kind \in {"scene", "glb"}
         => project.assets[a].fsPath # Entries(node)[1].fsPath

\* The scene `node` is an instance of, and that scene's rootNode.
Target(node) == SceneAt(instance(node).ref[1])
TargetRoot(node) == RootOf(Target(node))[1]

\* C1, as stated: isInstanceOverride(N) is true iff N has no declared type and
\* instance(N) returns nothing.
C1_Original ==
  Asked("isInstanceOverride")
    => (ret.val.bool <=> (RetNode.type = "" /\ instance(RetNode).kind = "undefined"))

\* C1, amended: isInstanceOverride(N) is true iff N has no declared type and N's
\* section carries no instance id or the id 0 (isInstance(N) is false); whether
\* the id resolves to an asset plays no part.
C1_Amended ==
  Asked("isInstanceOverride")
    => (ret.val.bool <=> (RetNode.type = "" /\ (RetNode.section.instance = << >>
                                            \/ RetNode.section.instance = <<0>>)))

\* isInstanceOverride was asked of a node without a type whose instance id names a
\* scene deleted from the project: instance() finds nothing, the answer is false.
C1_Witness ==
  /\ Asked("isInstanceOverride")
  /\ RetNode.type = ""
  /\ Unmatched(RetNode)
  /\ instance(RetNode) = Undefined
  /\ ret.val.bool = FALSE

\* The node has no script id of its own and is an instance of a scene with a
\* rootNode.
InstancesScene(node) ==
  /\ node.scriptExtResourceId = << >>
  /\ instance(node).kind = "scene"
  /\ Target(node).rootNode # << >>

\* C2: getScript() of a node without a script id that instances scene S
\* is getScript() of S's rootNode, at any depth of instancing.
C2_Claim ==
  (Asked("getScript") /\ InstancesScene(RetNode))
    => ret.val = getScript(TargetRoot(RetNode))

\* What holds of C2: getScript() of such a node is getScript() of S's rootNode
\* when that rootNode declares a (nonzero) script id of its own, and is undefined
\* when it declares none, whatever S's rootNode instances in turn.
C2_OneLevel ==
  (Asked("getScript") /\ InstancesScene(RetNode))
    => IF TruthyNum(TargetRoot(RetNode).scriptExtResourceId)
         THEN ret.val = getScript(TargetRoot(RetNode))
         ELSE ret.val = NoScript

\* getScript was asked of a node instancing a scene whose rootNode has no script id
\* and instances a further scene with a script: the node gets undefined, the
\* instanced rootNode a source file.
C2_TwoDeep ==
  /\ Asked("getScript")
  /\ InstancesScene(RetNode)
  /\ TargetRoot(RetNode).scriptExtResourceId = << >>
  /\ getScript(TargetRoot(RetNode)).kind = "source"
  /\ ret.val = NoScript

\* The source file the node's own script id names, through its scene's table.
OwnScript(node) ==
  Find(SelectSeq(sourceFiles,
       LAMBDA sf : \E k \in DOMAIN SceneOf(node).resources :
                     /\ node.scriptExtResourceId = <<SceneOf(node).resources[k].id>>
                     /\ sf.resPath = SceneOf(node).resources[k].resPath))

RECURSIVE ChainType(_, _, _)

\* The type C3 promises a typeless node at the head of an instancing chain: the
\* class of the first rootNode down the chain that declares a script, every
\* rootNode before it having no type and no script.  << >> when the node heads
\* no such chain, or one shorter than `atLeast` scenes.
ChainType(node, seen, atLeast) ==
  IF node.type # "" \/ instance(node).kind # "scene" THEN << >>
  ELSE IF Target(node).fsPath \in seen \/ Target(node).rootNode = << >> THEN << >>
  ELSE IF TargetRoot(node).scriptExtResourceId = << >>
    THEN ChainType(TargetRoot(node), seen \cup {Target(node).fsPath},
                   IF atLeast > 0 THEN atLeast - 1 ELSE atLeast)
  ELSE IF atLeast > 1 \/ OwnScript(TargetRoot(node)) = << >> THEN << >>
  ELSE IF ~TruthyStr(OwnScript(TargetRoot(node))[1].className) THEN << >>
  ELSE <<"import('" \o FsRoot \o OwnScript(TargetRoot(node))[1].fsPath.stem \o "')."
           \o OwnScript(TargetRoot(node))[1].className[1]>>

\* The last query was tsType() on the rootNode of a scene.
AskedRootType == Asked("tsType") /\ RetScene.rootNode = <<ret.node>>

\* C3: the rootNode of A, without a type and instancing B, whose rootNode has no
\* type and no script and instances C (and so on), has the class of the script
\* at the end of the chain as its tsType().
C3_Claim ==
  (AskedRootType /\ ChainType(RetNode, {RetScene.fsPath}, 2) # << >>)
    => (~ret.throws /\ ret.val.str = ChainType(RetNode, {RetScene.fsPath}, 2)[1])

\* Every node from `node` down its instancing chain carries a nonzero instance id.
RECURSIVE NonzeroChain(_, _)
NonzeroChain(node, seen) ==
  \/ node.type # ""
  \/ instance(node).kind # "scene"
  \/ Target(node).fsPath \in seen
  \/ Target(node).rootNode = << >>
  \/ /\ TruthyNum(node.section.instance)
     /\ \/ TargetRoot(node).scriptExtResourceId # << >>
        \/ NonzeroChain(TargetRoot(node), seen \cup {Target(node).fsPath})

\* What holds of C3: the same, for chains whose instance ids are all nonzero.
C3_NonzeroIds ==
  (AskedRootType /\ ChainType(RetNode, {RetScene.fsPath}, 2) # << >>
     /\ NonzeroChain(RetNode, {RetScene.fsPath}))
    => (~ret.throws /\ ret.val.str = ChainType(RetNode, {RetScene.fsPath}, 2)[1])

\* The same node, its instance id 1 in place of 0.
Twin(node) == [node EXCEPT !.section.instance = <<1>>]

\* Ids 0 and 1 of the node's scene name the same resource.
ZeroAndOneAgree(node) ==
  \E j, k \in DOMAIN SceneOf(node).resources :
    /\ SceneOf(node).resources[j].id = 0
    /\ SceneOf(node).resources[k].id = 1
    /\ SceneOf(node).resources[j].fsPath = SceneOf(node).resources[k].fsPath

\* C4: an instance id of 0 is an id like any other: instanceId gives 0, instance
\* looks 0 up, and isInstance, isInstanceOverride and tsType answer as they do for
\* the same node with a nonzero id of the same resource.
C4_Claim ==
  (pc = "loaded" /\ ret.node > 0 /\ ret.op # "translate"
     /\ RetNode.section.instance = <<0>> /\ ZeroAndOneAgree(RetNode))
    => /\ instanceId(RetNode) = <<0>>
       /\ ret.op = "instance" => ret.val = instance(Twin(RetNode))
       /\ ret.op = "isInstance" => ret.val.bool = isInstance(Twin(RetNode))
       /\ ret.op = "isInstanceOverride" => ret.val.bool = isInstanceOverride(Twin(RetNode))
       /\ ret.op = "tsType" => /\ ret.val.str = NodeTsType(Twin(RetNode), {}).val
                               /\ ret.throws = NodeTsType(Twin(RetNode), {}).throws

\* C5: an instance id missing from the scene's resource table makes instance()
\* throw, and tsType() with it when the node has no type of its own to return; an
\* id in the table whose path is no scene or model of the project makes
\* instance() return undefined and such a tsType() append a diagnostic and return
\* "any".
C5_Claim ==
  /\ (Asked("instance") /\ Dangling(RetNode)) => ret.throws
  /\ (Asked("tsType") /\ Dangling(RetNode) /\ RetNode.type = "") => ret.throws
  /\ (Asked("instance") /\ Unmatched(RetNode)) => (~ret.throws /\ ret.val = Undefined)
  /\ (Asked("tsType") /\ Unmatched(RetNode) /\ RetNode.type = "")
       => (~ret.throws /\ ret.val.str = "any" /\ ret.appended # << >>)

\* What holds of C5: the same, for nodes whose instance id is not 0.
C5_NonzeroIds ==
  (pc = "loaded" /\ ret.node > 0 /\ ret.op # "translate"
     /\ RetNode.section.instance # <<0>>) => C5_Claim

\* The last query was the scene's tsType(), and the scene has a rootNode.
AskedSceneType == Asked("sceneTsType") /\ RetScene.rootNode # << >>
RetRoot == RootOf(RetScene)[1]

\* The rootNode's script id is in the scene's resource table.
ScriptInTable(node) ==
  \E k \in DOMAIN SceneOf(node).resources :
    node.scriptExtResourceId = <<SceneOf(node).resources[k].id>>

ImportOf(sf) == "import('" \o FsRoot \o sf.fsPath.stem \o "')." \o sf.className[1]

C7_Original ==
  Asked("children")
    => \A k \in DOMAIN ret.val.nodes :
         ~(ret.val.nodes[k].type = "" /\ instance(ret.val.nodes[k]).kind = "undefined")

\* C7, amended: children(N) holds no node for which isInstanceOverride is true,
\* that is, no node without a type whose section carries no instance id or the
\* id 0.
C7_Amended ==
  Asked("children")
    => \A k \in DOMAIN ret.val.nodes :
         ~(ret.val.nodes[k].type = "" /\ (ret.val.nodes[k].section.instance = << >>
                                     \/ ret.val.nodes[k].section.instance = <<0>>))

\* children() was asked of a node below which the scene declares an override and
\* a typeless instance of a deleted scene: the second is among the children.
C7_Witness ==
  /\ Asked("children")
  /\ \E j \in DOMAIN RetScene.nodes :
       /\ RetScene.nodes[j].parent = <<scenePath(RetNode)>>
       /\ RetScene.nodes[j].type = ""
       /\ RetScene.nodes[j].section.instance = << >>
  /\ \E k \in DOMAIN ret.val.nodes : ret.val.nodes[k].type = "" /\ Unmatched(ret.val.nodes[k])

\* C8: no query changes the project's scenes, nodes or resource tables, and a
\* query made again returns what it returned the first time.
C8_ReadOnly ==
  [][/\ pc = "loaded" => (project' = project /\ files' = files)
     /\ (memo.first # << >> /\ ret'.op = memo.first[1].op
           /\ ret'.scene = memo.first[1].scene /\ ret'.node = memo.first[1].node)
          => (ret'.val = memo.first[1].val /\ ret'.throws = memo.first[1].throws
                /\ ret'.appended = memo.first[1].appended)]_vars

\* The first query of the run, a getScript() that found a source file through an
\* instanced scene, was made again after other queries.
C8_Witness ==
  /\ memo.first # << >>
  /\ memo.again
  /\ Asked("getScript")
  /\ ret.scene = memo.first[1].scene
  /\ ret.node = memo.first[1].node
  /\ memo.first[1].op = "getScript"
  /\ InstancesScene(RetNode)
  /\ ret.val.kind = "source"

RootShaped(sceneFile) ==
  {i \in DOMAIN sceneFile.node : sceneFile.node[i].section.parent = << >>}

\* C10: rootNode is the first node section without a parent attribute; a scene
\* file with none, or with several, gets a diagnostic at construction and its
\* tsType() does not throw.
C10_Claim ==
  pc = "loaded"
    => \A s \in DOMAIN godotScenes :
         /\ RootShaped(files[Stems[s]]) # {}
              => /\ godotScenes[s].rootNode # << >>
                 /\ godotScenes[s].rootNode[1] \in RootShaped(files[Stems[s]])
                 /\ \A j \in RootShaped(files[Stems[s]]) : godotScenes[s].rootNode[1] <= j
         /\ Cardinality(RootShaped(files[Stems[s]])) # 1
              => /\ errors # << >>
                 /\ (ret.op = "sceneTsType" /\ ret.scene = s) => ~ret.throws

====
